---- MODULE Spec2Model ----
(***************************************************************************)
(* Machine occupancy lifecycle of system_tracking (src/main.py): the six   *)
(* collections of src/database.py and the request handlers that mutate     *)
(* them.  Spec runs every handler to completion (one action per request);  *)
(* SpecConc interleaves handlers at the granularity of one store call.     *)
(***************************************************************************)
EXTENDS Integers, Sequences, FiniteSets, TLC

(* ------------------------------ bounds -------------------------------- *)
\* the clock stops here: every handler that stamps a record reads now_ist()
MaxTime == 4
\* the same, for the runs that record refused requests
MaxGateTime == 2
\* the same, for the runs that change roles
MaxRoleTime == 1
\* requests a worker takes in SpecConc
MaxServed == 1
\* requests a worker takes in SpecSpans
MaxSpanServed == 2
\* the clock at which a run of the variant stops
MaxAppTime == 2
\* the same, for the runs with two projects
MaxProjectTime == 3
\* the same, for the runs beside a second machine
MaxRemoveTime == 3
\* the clock at which a run of SpecForms stops
MaxFormTime == 2
\* logins in a run of SpecAuth
MaxIssued == 2
\* days in a run of SpecAuth
MaxAuthTime == 9

(* --------------------------- program constants ------------------------ *)
\* timedelta(days=7) of login_submit, in clock units
SessionDays == 7
\* len(parts) != 4 in validate_ip
IpParts == 4
\* 0 <= int(p) <= 255 in validate_ip
MaxOctet == 255
\* len(password) < 5 in register_submit
MinPassword == 5

NoUser == [email |-> "", role |-> ""]
NoField == "-"

(* ------------------------------ inputs -------------------------------- *)
Emails == {"alice", "bob", "mgr", "carol"}
Roles == {"user", "assigner", "manager"}
\* every ip string a request may carry; only add_system validates it
Ips == {"10.0.0.5"}
\* what add_system may be asked to add: a malformed ip is refused there only
AddIps == Ips \cup {"999.1.1.1", "10.0.5", "10.0.0.x"}
\* cookie values: one per session of Init, a cookie naming no session, no cookie
Tokens == {"tok_alice", "tok_bob", "tok_mgr", "tok_stale", ""}
\* the email field of /promote
Promoted == {"alice", "carol"}
\* the user_email field of /assign
Targets == {"alice", "bob", "mgr"}
\* the owner a client may write into the "(Owner: ...)" part of the label
Owners == {"alice", "bob", "nobody"}
\* the three shapes of the `system` form field
Formats == {"free", "using", "other"}
Systems ==
    [fmt : {"using"}, ip : Ips, owner : Owners] \cup
    [fmt : {"free", "other"}, ip : Ips, owner : {NoField}]
Names == {"n", " "}
PwLens == {MinPassword - 1, MinPassword}


(* ------------------------------ state --------------------------------- *)
VARIABLES
    users_col,          \* email -> role, "none" when no document has the email
    systems_col,        \* the Free machines: set of ip
    active_col,         \* set of ActiveUsage documents
    contributors_col,   \* sequence of Contribution documents, in natural order
    logs_col,           \* sequence of UsageLog documents
    sessions_col,       \* set of Session documents
    now,                \* the wall clock read by now_ist()
    known,              \* history: ips added by add_system and not removed
    last,               \* history: the request completed last and its outcome
    proc,               \* SpecConc: each worker's position in its handler and its locals
    scene,              \* history: the state a run started in
    issued              \* the session tokens drawn from secrets.token_urlsafe so far

vars == <<users_col, systems_col, active_col, contributors_col, logs_col,
          sessions_col, now, known, last, proc, scene, issued>>

store == <<users_col, systems_col, active_col, contributors_col, logs_col,
           sessions_col>>

(* --------------------------- pure functions --------------------------- *)
\* str.split(".") of the ip strings in Ips and of two malformed ones
Split(ip) ==
    CASE ip = "10.0.0.5" -> <<"10", "0", "0", "5">>
      [] ip = "10.0.0.6" -> <<"10", "0", "0", "6">>
      [] ip = "999.1.1.1" -> <<"999", "1", "1", "1">>
      [] ip = "10.0.5" -> <<"10", "0", "5">>
      [] ip = "10.0.0.x" -> <<"10", "0", "0", "x">>
      [] ip = "1_0.0.0.5" -> <<"1_0", "0", "0", "5">>
      [] OTHER -> <<ip>>

\* int(p): the value, or -1 standing for ValueError; int() takes an
\* underscore between digits, so int("1_0") is 10
IntOf(p) ==
    CASE p = "0" -> 0
      [] p = "1_0" -> 10
      [] p = "1" -> 1
      [] p = "5" -> 5
      [] p = "6" -> 6
      [] p = "10" -> 10
      [] p = "999" -> 999
      [] OTHER -> -1

ValueError(p) == IntOf(p) = -1

validate_ip(ip) ==
    LET parts == Split(ip) IN
    IF Len(parts) # IpParts THEN FALSE
    ELSE IF \E i \in 1..Len(parts) : ValueError(parts[i]) THEN FALSE
    ELSE \A i \in 1..Len(parts) : 0 <= IntOf(parts[i]) /\ IntOf(parts[i]) <= MaxOctet

\* float(h): the value in tenths, or -1 standing for the exception
FloatOf(h) ==
    CASE h = "2" -> 20
      [] h = "0.5" -> 5
      [] h = "0" -> 0
      [] OTHER -> -1

\* validate_hours(h) is None
HoursInvalid(h) == IF FloatOf(h) = -1 THEN TRUE ELSE ~(FloatOf(h) > 0)

\* project.strip()
Strip(s) == IF s \in {" ", ""} THEN "" ELSE s

BadForm(project, duration) == Strip(project) = "" \/ HoursInvalid(duration)

(* ------------------------------ store --------------------------------- *)
\* find_one / count_documents / delete_one on a sequence of documents
Matches(col, P(_)) == {i \in 1..Len(col) : P(col[i])}
Min(S) == CHOOSE x \in S : \A y \in S : x <= y
Remove(col, i) == [j \in 1..(Len(col) - 1) |-> IF j < i THEN col[j] ELSE col[j + 1]]
DeleteOne(col, P(_)) ==
    IF Matches(col, P) = {} THEN col ELSE Remove(col, Min(Matches(col, P)))
DeleteMany(col, P(_)) == SelectSeq(col, LAMBDA d : ~P(d))

Occupied(ip) == \E a \in active_col : a.ip = ip

\* duplicate key on the unique index of active_usage.ip
ActiveDup(ip) == \E a \in active_col : a.ip = ip
\* duplicate key on the unique index of systems.ip
SystemsDup(ip) == ip \in systems_col
\* duplicate key on the unique index of contributors
\* (main_ip, main_user, contributor, project)
ContribDup(doc) ==
    \E i \in 1..Len(contributors_col) :
        /\ contributors_col[i].main_ip = doc.main_ip
        /\ contributors_col[i].main_user = doc.main_user
        /\ contributors_col[i].contributor = doc.contributor
        /\ contributors_col[i].project = doc.project

ActiveDoc(ip, user, project, duration) ==
    [ip |-> ip, user |-> user, project |-> project, duration |-> duration,
     start_time |-> now, main_released |-> FALSE]

ContribDoc(ip, owner, contributor, project, duration) ==
    [main_ip |-> ip, main_user |-> owner, contributor |-> contributor,
     project |-> project, duration |-> duration, start_time |-> now]

(* --------------------------- identity gate ---------------------------- *)
\* the gate without the test of expires_at
get_current_user_NoExpiry(token) ==
    IF token = "" THEN NoUser
    ELSE LET found == {s \in sessions_col : s.session_token = token} IN
         IF found = {} THEN NoUser
         ELSE LET session == CHOOSE s \in found : TRUE IN
              IF users_col[session.email] = "none" THEN NoUser
              ELSE [email |-> session.email, role |-> users_col[session.email]]

get_current_user(token) ==
    IF token = "" THEN NoUser
    ELSE LET found == {s \in sessions_col : s.session_token = token} IN
         IF found = {} THEN NoUser
         ELSE LET session == CHOOSE s \in found : TRUE IN
              IF session.expires_at < now THEN NoUser
              ELSE IF users_col[session.email] = "none" THEN NoUser
              ELSE [email |-> session.email, role |-> users_col[session.email]]

\* the check of /add/system with "user" let through
NotPrivileged_AnyRole(user) == user.role \notin {"manager", "assigner", "user"}

\* user["role"] not in ["manager", "assigner"]
NotPrivileged(user) == user.role \notin {"manager", "assigner"}

\* the check of /promote written as the check of /assign
NotManager_Staff(user) == user.role \notin {"manager", "assigner"}

\* user["role"] != "manager"
NotManager(user) == user.role # "manager"

(* ------------------------------ history ------------------------------- *)
\* arg: the role asked of /promote
Req(op, token, ip, res) ==
    [op |-> op, token |-> token, ip |-> ip, arg |-> NoField, res |-> res]

(* ------------------------------ workers ------------------------------- *)
Workers == {1, 2}
\* a worker between requests; served counts the requests it has taken
Idle(served) ==
    [pc |-> "idle", op |-> NoField, token |-> "", ip |-> NoField, who |-> NoField,
     owner |-> NoField, project |-> NoField, res |-> NoField, record |-> NoField,
     contrib_count |-> 0, served |-> served]

(* ------------------------------- Init --------------------------------- *)
Init ==
    /\ proc = [w \in Workers |-> Idle(0)]
    /\ issued = 0
    /\ scene = "empty"
    /\ users_col = [e \in Emails |->
                      CASE e = "mgr" -> "manager"
                        [] e = "carol" -> "none"
                        [] OTHER -> "user"]
    /\ systems_col = {}
    /\ active_col = {}
    /\ contributors_col = <<>>
    /\ logs_col = <<>>
    /\ sessions_col = {[email |-> e, session_token |-> "tok_" \o e,
                        expires_at |-> SessionDays] : e \in {"alice", "bob", "mgr"}}
    /\ now = 0
    /\ known = {}
    /\ last = Req("none", "", NoField, NoField)

(* ------------------------------ handlers ------------------------------ *)
\* POST /add/system
add_system(token, ip) ==
    LET user == get_current_user(token) IN
    /\ IF user = NoUser \/ NotPrivileged(user)
       THEN /\ last' = Req("add_system", token, ip, "denied")
            /\ UNCHANGED <<systems_col, known>>
       ELSE IF ~validate_ip(ip)
       THEN /\ last' = Req("add_system", token, ip, "invalid")
            /\ UNCHANGED <<systems_col, known>>
       ELSE IF SystemsDup(ip)
       THEN /\ last' = Req("add_system", token, ip, "exists")
            /\ UNCHANGED <<systems_col, known>>
       ELSE /\ systems_col' = systems_col \cup {ip}
            /\ known' = known \cup {ip}
            /\ last' = Req("add_system", token, ip, "ok")
    /\ UNCHANGED <<users_col, active_col, contributors_col, logs_col, sessions_col, now>>

\* POST /book
book_system(token, ip, project, duration) ==
    LET user == get_current_user(token) IN
    /\ IF user = NoUser
       THEN /\ last' = Req("book_system", token, ip, "login")
            /\ UNCHANGED <<systems_col, active_col, now>>
       ELSE IF BadForm(project, duration)
       THEN /\ last' = Req("book_system", token, ip, "invalid")
            /\ UNCHANGED <<systems_col, active_col, now>>
       ELSE /\ systems_col' = systems_col \ {ip}
            /\ IF ActiveDup(ip)
               THEN /\ last' = Req("book_system", token, ip, "failed")
                    /\ UNCHANGED <<active_col, now>>
               ELSE /\ active_col' = active_col \cup
                                       {ActiveDoc(ip, user.email, project, duration)}
                    /\ now' = now + 1
                    /\ last' = Req("book_system", token, ip, "ok")
    /\ UNCHANGED <<users_col, contributors_col, logs_col, sessions_col, known>>

\* POST /assign: " - free" in system books the ip for user_email, the
\* " - using (Owner: x)" label adds user_email as a contributor
assign_system(token, system, user_email, project, duration) ==
    LET user == get_current_user(token)
        R(res) == Req("assign_system", token, system.ip, res)
    IN
    /\ IF user = NoUser \/ NotPrivileged(user)
       THEN /\ last' = R("denied")
            /\ UNCHANGED <<systems_col, active_col, contributors_col, now>>
       ELSE IF BadForm(project, duration)
       THEN /\ last' = R("invalid")
            /\ UNCHANGED <<systems_col, active_col, contributors_col, now>>
       ELSE IF users_col[user_email] # "user"
       THEN /\ last' = R("notfound")
            /\ UNCHANGED <<systems_col, active_col, contributors_col, now>>
       ELSE IF system.fmt = "free"
       THEN /\ systems_col' = systems_col \ {system.ip}
            /\ IF ActiveDup(system.ip)
               THEN /\ last' = R("failed")
                    /\ UNCHANGED <<active_col, now>>
               ELSE /\ active_col' = active_col \cup
                                {ActiveDoc(system.ip, user_email, project, duration)}
                    /\ now' = now + 1
                    /\ last' = R("ok")
            /\ UNCHANGED contributors_col
       ELSE IF system.fmt # "using"
       THEN /\ last' = R("badformat")
            /\ UNCHANGED <<systems_col, active_col, contributors_col, now>>
       ELSE IF system.owner \notin Emails \/ users_col[system.owner] = "none"
       THEN /\ last' = R("badowner")
            /\ UNCHANGED <<systems_col, active_col, contributors_col, now>>
       ELSE LET doc == ContribDoc(system.ip, system.owner, user_email, project, duration) IN
            /\ IF ContribDup(doc)
               THEN /\ last' = R("failed")
                    /\ UNCHANGED <<contributors_col, now>>
               ELSE /\ contributors_col' = Append(contributors_col, doc)
                    /\ now' = now + 1
                    /\ last' = R("ok")
            /\ UNCHANGED <<systems_col, active_col>>
    /\ UNCHANGED <<users_col, logs_col, sessions_col, known>>

\* POST /self/contribute
self_contribute(token, system, project, duration) ==
    LET user == get_current_user(token)
        R(res) == Req("self_contribute", token, system.ip, res)
        Mine(d) == d.main_ip = system.ip /\ d.contributor = user.email
    IN
    /\ IF user = NoUser
       THEN /\ last' = R("login")
            /\ UNCHANGED <<contributors_col, now>>
       ELSE IF user.role # "user"
       THEN /\ last' = R("denied")
            /\ UNCHANGED <<contributors_col, now>>
       ELSE IF BadForm(project, duration)
       THEN /\ last' = R("invalid")
            /\ UNCHANGED <<contributors_col, now>>
       ELSE IF system.fmt # "using"
       THEN /\ last' = R("badformat")
            /\ UNCHANGED <<contributors_col, now>>
       ELSE IF Matches(contributors_col, Mine) # {}
       THEN /\ last' = R("already")
            /\ UNCHANGED <<contributors_col, now>>
       ELSE /\ contributors_col' = Append(contributors_col,
                   ContribDoc(system.ip, system.owner, user.email, project, duration))
            /\ now' = now + 1
            /\ last' = R("ok")
    /\ UNCHANGED <<users_col, systems_col, active_col, logs_col, sessions_col, known>>

\* the lookup of /release/main by ip alone
FindRecord_AnyUser(ip, email) == {a \in active_col : a.ip = ip}

\* active_col.find_one({"ip": ip, "user": user["email"]})
FindRecord(ip, email) == {a \in active_col : a.ip = ip /\ a.user = email}

\* POST /release/main
release_main(token, ip) ==
    LET user == get_current_user(token)
        R(res) == Req("release_main", token, ip, res)
        found == FindRecord(ip, user.email)
        Theirs(d) == d.main_ip = ip /\ d.main_user = user.email
    IN
    /\ IF user = NoUser
       THEN /\ last' = R("403")
            /\ UNCHANGED <<systems_col, active_col, logs_col, now>>
       ELSE IF found = {}
       THEN /\ last' = R("404")
            /\ UNCHANGED <<systems_col, active_col, logs_col, now>>
       ELSE LET record == CHOOSE a \in found : TRUE
                contrib_count == Cardinality(Matches(contributors_col, Theirs))
            IN
            /\ logs_col' = Append(logs_col,
                   [ip |-> ip, user |-> user.email, main_user |-> NoField,
                    project |-> record.project, duration |-> record.duration,
                    start_time |-> record.start_time, end_time |-> now,
                    is_contribution |-> FALSE])
            /\ now' = now + 1
            /\ IF contrib_count = 0
               THEN /\ systems_col' = systems_col \cup {ip}
                    /\ active_col' = {a \in active_col : a.ip # ip}
                    /\ last' = R("released")
               ELSE /\ active_col' = {IF a.ip = ip
                                      THEN [a EXCEPT !.main_released = TRUE]
                                      ELSE a : a \in active_col}
                    /\ last' = R("remain")
                    /\ UNCHANGED systems_col
    /\ UNCHANGED <<users_col, contributors_col, sessions_col, known>>

\* POST /release/contrib
release_contrib(token, main_ip) ==
    LET user == get_current_user(token)
        R(res) == Req("release_contrib", token, main_ip, res)
        Mine(d) == d.main_ip = main_ip /\ d.contributor = user.email
        OnIp(d) == d.main_ip = main_ip
    IN
    /\ IF user = NoUser
       THEN /\ last' = R("403")
            /\ UNCHANGED <<systems_col, active_col, contributors_col, logs_col, now>>
       ELSE IF Matches(contributors_col, Mine) = {}
       THEN /\ last' = R("nocontrib")
            /\ UNCHANGED <<systems_col, active_col, contributors_col, logs_col, now>>
       ELSE LET c == contributors_col[Min(Matches(contributors_col, Mine))]
                left == DeleteOne(contributors_col, Mine)
                remaining == Cardinality(Matches(left, OnIp))
                main_released == \E a \in active_col : a.ip = main_ip /\ a.main_released
            IN
            /\ logs_col' = Append(logs_col,
                   [ip |-> main_ip, user |-> user.email, main_user |-> c.main_user,
                    project |-> c.project, duration |-> c.duration,
                    start_time |-> c.start_time, end_time |-> now,
                    is_contribution |-> TRUE])
            /\ now' = now + 1
            /\ contributors_col' = left
            /\ IF remaining = 0 /\ main_released
               THEN /\ systems_col' = systems_col \cup {main_ip}
                    /\ active_col' = {a \in active_col : a.ip # main_ip}
                    /\ last' = R("fully")
               ELSE /\ last' = R("released")
                    /\ UNCHANGED <<systems_col, active_col>>
    /\ UNCHANGED <<users_col, sessions_col, known>>

\* /remove/system with contributors_col.delete_many({})
remove_system_EveryContribution(token, ip) ==
    LET user == get_current_user(token)
        R(res) == Req("remove_system", token, ip, res)
    IN
    /\ IF user = NoUser \/ NotPrivileged(user)
       THEN /\ last' = R("403")
            /\ UNCHANGED <<systems_col, active_col, contributors_col, known>>
       ELSE /\ systems_col' = systems_col \ {ip}
            /\ active_col' = {a \in active_col : a.ip # ip}
            /\ contributors_col' = <<>>
            /\ known' = known \ {ip}
            /\ last' = R("ok")
    /\ UNCHANGED <<users_col, logs_col, sessions_col, now>>

\* /remove/system that also drops the usage logs of the ip
remove_system_WithLogs(token, ip) ==
    LET user == get_current_user(token)
        R(res) == Req("remove_system", token, ip, res)
        OnIp(d) == d.main_ip = ip
    IN
    /\ IF user = NoUser \/ NotPrivileged(user)
       THEN /\ last' = R("403")
            /\ UNCHANGED <<systems_col, active_col, contributors_col, known, logs_col>>
       ELSE /\ systems_col' = systems_col \ {ip}
            /\ active_col' = {a \in active_col : a.ip # ip}
            /\ contributors_col' = DeleteMany(contributors_col, OnIp)
            /\ logs_col' = SelectSeq(logs_col, LAMBDA l : l.ip # ip)
            /\ known' = known \ {ip}
            /\ last' = R("ok")
    /\ UNCHANGED <<users_col, sessions_col, now>>

\* POST /remove/system
remove_system(token, ip) ==
    LET user == get_current_user(token)
        R(res) == Req("remove_system", token, ip, res)
        OnIp(d) == d.main_ip = ip
    IN
    /\ IF user = NoUser \/ NotPrivileged(user)
       THEN /\ last' = R("403")
            /\ UNCHANGED <<systems_col, active_col, contributors_col, known>>
       ELSE /\ systems_col' = systems_col \ {ip}
            /\ active_col' = {a \in active_col : a.ip # ip}
            /\ contributors_col' = DeleteMany(contributors_col, OnIp)
            /\ known' = known \ {ip}
            /\ last' = R("ok")
    /\ UNCHANGED <<users_col, logs_col, sessions_col, now>>

\* POST /promote
promote_user(token, email, role) ==
    LET user == get_current_user(token)
        R(res) == [Req("promote_user", token, NoField, res) EXCEPT !.arg = role]
    IN
    /\ IF user = NoUser \/ NotManager(user)
       THEN /\ last' = R("403")
            /\ UNCHANGED users_col
       ELSE IF role \in {"manager", "assigner"}
       THEN /\ users_col' = IF users_col[email] = "none" THEN users_col
                            ELSE [users_col EXCEPT ![email] = role]
            /\ last' = R("ok")
       ELSE /\ last' = R("invalid")
            /\ UNCHANGED users_col
    /\ UNCHANGED <<systems_col, active_col, contributors_col, logs_col,
                   sessions_col, now, known>>

\* POST /register, with create_user and user_exists of database.py
register_submit(name, email, pwlen) ==
    LET R(res) == Req("register_submit", "", NoField, res) IN
    /\ IF Strip(name) = "" \/ Strip(email) = "" \/ pwlen < MinPassword
       THEN /\ last' = R("invalid")
            /\ UNCHANGED users_col
       ELSE IF users_col[email] # "none"
       THEN /\ last' = R("exists")
            /\ UNCHANGED users_col
       ELSE /\ users_col' = [users_col EXCEPT ![email] = "user"]
            /\ last' = R("ok")
    /\ UNCHANGED <<systems_col, active_col, contributors_col, logs_col,
                   sessions_col, now, known>>

(* ------------------------------ requests ------------------------------ *)
\* A handler returns on a bad form before it reads the other fields, so the
\* bad forms are sent with one system and one target; a good form is sent with
\* every cookie, label and target.
GoodForm == [project |-> "proj-x", duration |-> "2"]
BadForms == {[project |-> " ", duration |-> "2"],
             [project |-> "proj-x", duration |-> "0"],
             [project |-> "proj-x", duration |-> "abc"]}
OneSystem == [fmt |-> "free", ip |-> "10.0.0.5", owner |-> NoField]

AssignReqs ==
    {[token |-> t, system |-> s, user_email |-> e, form |-> GoodForm] :
        t \in Tokens, s \in Systems, e \in Targets} \cup
    {[token |-> t, system |-> OneSystem, user_email |-> "alice", form |-> f] :
        t \in Tokens, f \in BadForms}

SelfReqs ==
    {[token |-> t, system |-> s, form |-> GoodForm] : t \in Tokens, s \in Systems} \cup
    {[token |-> t, system |-> OneSystem, form |-> f] : t \in Tokens, f \in BadForms}

AddMachine ==
    /\ \E t \in Tokens, ip \in AddIps : add_system(t, ip)
    /\ UNCHANGED <<proc, scene, issued>>
Book ==
    /\ \E t \in Tokens, ip \in Ips, f \in {GoodForm} \cup BadForms :
                book_system(t, ip, f.project, f.duration)
    /\ UNCHANGED <<proc, scene, issued>>
Assign ==
    /\ \E r \in AssignReqs :
                assign_system(r.token, r.system, r.user_email, r.form.project, r.form.duration)
    /\ UNCHANGED <<proc, scene, issued>>
SelfContribute ==
    /\ \E r \in SelfReqs :
                self_contribute(r.token, r.system, r.form.project, r.form.duration)
    /\ UNCHANGED <<proc, scene, issued>>
ReleasePrimary ==
    /\ \E t \in Tokens, ip \in Ips : release_main(t, ip)
    /\ UNCHANGED <<proc, scene, issued>>
ReleaseContribution ==
    /\ \E t \in Tokens, ip \in Ips : release_contrib(t, ip)
    /\ UNCHANGED <<proc, scene, issued>>
RemoveMachine ==
    /\ \E t \in Tokens, ip \in Ips : remove_system(t, ip)
    /\ UNCHANGED <<proc, scene, issued>>
PromoteUser ==
    /\ \E t \in Tokens, e \in Promoted, r \in Roles : promote_user(t, e, r)
    /\ UNCHANGED <<proc, scene, issued>>
Register ==
    /\ \E n \in Names, e \in Emails, l \in PwLens : register_submit(n, e, l)
    /\ UNCHANGED <<proc, scene, issued>>

(* --------------------------- specifications --------------------------- *)
\* the request changed a collection
Effective == store' # store

\* the requests that change a collection, until the clock reaches MaxTime
Next ==
    \/ AddMachine /\ Effective /\ now' <= MaxTime
    \/ Book /\ Effective /\ now' <= MaxTime
    \/ Assign /\ Effective /\ now' <= MaxTime
    \/ SelfContribute /\ Effective /\ now' <= MaxTime
    \/ ReleasePrimary /\ Effective /\ now' <= MaxTime
    \/ ReleaseContribution /\ Effective /\ now' <= MaxTime
    \/ RemoveMachine /\ Effective /\ now' <= MaxTime
Spec == Init /\ [][Next]_vars

\* every request, refused ones included, until the clock reaches MaxGateTime
NextGate ==
    \/ AddMachine /\ now' <= MaxGateTime
    \/ Book /\ now' <= MaxGateTime
    \/ Assign /\ now' <= MaxGateTime
    \/ SelfContribute /\ now' <= MaxGateTime
    \/ ReleasePrimary /\ now' <= MaxGateTime
    \/ ReleaseContribution /\ now' <= MaxGateTime
    \/ RemoveMachine /\ now' <= MaxGateTime
SpecGate == Init /\ [][NextGate]_vars

\* every request, the account handlers included, until the clock reaches MaxRoleTime
NextRoles ==
    \/ AddMachine /\ now' <= MaxRoleTime
    \/ Book /\ now' <= MaxRoleTime
    \/ Assign /\ now' <= MaxRoleTime
    \/ SelfContribute /\ now' <= MaxRoleTime
    \/ ReleasePrimary /\ now' <= MaxRoleTime
    \/ ReleaseContribution /\ now' <= MaxRoleTime
    \/ RemoveMachine /\ now' <= MaxRoleTime
    \/ PromoteUser
    \/ Register
SpecRoles == Init /\ [][NextRoles]_vars

\* /assign with two projects, to tell the rows of one (ip, owner, contributor)
OtherForm == [project |-> "proj-y", duration |-> "2"]
ProjectReqs ==
    {[token |-> "tok_mgr", system |-> s, user_email |-> e, form |-> f] :
        s \in Systems, e \in {"alice", "bob"}, f \in {GoodForm, OtherForm}}
AssignProject ==
    /\ \E r \in ProjectReqs :
           assign_system(r.token, r.system, r.user_email, r.form.project, r.form.duration)
    /\ UNCHANGED <<proc, scene, issued>>

\* the requests of Spec with both projects, until the clock reaches MaxProjectTime
NextProjects ==
    \/ AddMachine /\ Effective /\ now' <= MaxProjectTime
    \/ Book /\ Effective /\ now' <= MaxProjectTime
    \/ AssignProject /\ now' <= MaxProjectTime
    \/ ReleasePrimary /\ Effective /\ now' <= MaxProjectTime
    \/ ReleaseContribution /\ Effective /\ now' <= MaxProjectTime
    \/ RemoveMachine /\ Effective /\ now' <= MaxProjectTime
SpecProjects == Init /\ [][NextProjects]_vars

\* a second machine, which only /remove/system is asked about
OtherIp == "10.0.0.6"
\* the states SpecRemove starts in: OtherIp Free, booked by bob, and booked
\* by bob with alice contributing
InitRemove ==
    /\ users_col = [e \in Emails |->
                      CASE e = "mgr" -> "manager"
                        [] e = "carol" -> "none"
                        [] OTHER -> "user"]
    /\ sessions_col = {[email |-> e, session_token |-> "tok_" \o e,
                        expires_at |-> SessionDays] : e \in {"alice", "bob", "mgr"}}
    /\ logs_col = <<>>
    /\ known = {OtherIp}
    /\ last = Req("none", "", NoField, NoField)
    /\ proc = [w \in Workers |-> Idle(0)]
    /\ issued = 0
    /\ scene \in {"free", "booked", "shared"}
    /\ systems_col = IF scene = "free" THEN {OtherIp} ELSE {}
    /\ active_col = IF scene = "free" THEN {}
                    ELSE {[ip |-> OtherIp, user |-> "bob", project |-> "proj-x",
                           duration |-> "2", start_time |-> 0, main_released |-> FALSE]}
    /\ contributors_col = IF scene = "shared"
                          THEN <<[main_ip |-> OtherIp, main_user |-> "bob",
                                  contributor |-> "alice", project |-> "proj-x",
                                  duration |-> "2", start_time |-> 1]>>
                          ELSE <<>>
    /\ now = CASE scene = "free" -> 0 [] scene = "booked" -> 1 [] OTHER -> 2

RemoveAny ==
    /\ \E t \in Tokens, ip \in Ips \cup {OtherIp} : remove_system(t, ip)
    /\ UNCHANGED <<proc, scene, issued>>

\* the requests of Spec beside a second machine, every /remove/system
\* recorded, until the clock reaches MaxRemoveTime
NextRemove ==
    \/ AddMachine /\ Effective /\ now' <= MaxRemoveTime
    \/ Book /\ Effective /\ now' <= MaxRemoveTime
    \/ Assign /\ Effective /\ now' <= MaxRemoveTime
    \/ SelfContribute /\ Effective /\ now' <= MaxRemoveTime
    \/ ReleasePrimary /\ Effective /\ now' <= MaxRemoveTime
    \/ ReleaseContribution /\ Effective /\ now' <= MaxRemoveTime
    \/ RemoveAny
SpecRemove == InitRemove /\ [][NextRemove]_vars

\* /add/system with every ip string of AddIps and one with an underscore
RawIps == AddIps \cup {"1_0.0.0.5"}
AddRaw ==
    /\ \E t \in Tokens, ip \in RawIps : add_system(t, ip)
    /\ UNCHANGED <<proc, scene, issued>>

\* the requests that carry a form or an ip string, refused ones included,
\* until the clock reaches MaxFormTime
NextForms ==
    \/ AddRaw /\ now' <= MaxFormTime
    \/ Book /\ now' <= MaxFormTime
    \/ Assign /\ now' <= MaxFormTime
    \/ SelfContribute /\ now' <= MaxFormTime
SpecForms == Init /\ [][NextForms]_vars

(* ----------------- the variant src/fastapi_app/main.py ---------------- *)
\* The variant keeps name where src/main.py keeps email; a user's name is
\* written here as the key of its users document.  Its handlers are those of
\* src/main.py but for /assign and /release/contrib.

\* POST /assign of the variant: no lookup of user_name, none of the owner
fastapi_app_assign_system(token, system, user_name, project, duration) ==
    LET user == get_current_user(token)
        R(res) == [Req("assign_system", token, system.ip, res) EXCEPT !.arg = user_name]
    IN
    /\ IF user = NoUser \/ NotPrivileged(user)
       THEN /\ last' = R("denied")
            /\ UNCHANGED <<systems_col, active_col, contributors_col, now>>
       ELSE IF BadForm(project, duration)
       THEN /\ last' = R("invalid")
            /\ UNCHANGED <<systems_col, active_col, contributors_col, now>>
       ELSE IF system.fmt = "free"
       THEN /\ systems_col' = systems_col \ {system.ip}
            /\ IF ActiveDup(system.ip)
               THEN /\ last' = R("failed")
                    /\ UNCHANGED <<active_col, now>>
               ELSE /\ active_col' = active_col \cup
                                {ActiveDoc(system.ip, user_name, project, duration)}
                    /\ now' = now + 1
                    /\ last' = R("ok")
            /\ UNCHANGED contributors_col
       ELSE IF system.fmt # "using"
       THEN /\ last' = R("badformat")
            /\ UNCHANGED <<systems_col, active_col, contributors_col, now>>
       ELSE LET doc == ContribDoc(system.ip, system.owner, user_name, project, duration) IN
            /\ IF ContribDup(doc)
               THEN /\ last' = R("failed")
                    /\ UNCHANGED <<contributors_col, now>>
               ELSE /\ contributors_col' = Append(contributors_col, doc)
                    /\ now' = now + 1
                    /\ last' = R("ok")
            /\ UNCHANGED <<systems_col, active_col>>
    /\ UNCHANGED <<users_col, logs_col, sessions_col, known>>

\* POST /release/contrib of the variant: contributor is a field of the form
fastapi_app_release_contrib(token, main_ip, contributor) ==
    LET user == get_current_user(token)
        R(res) == [Req("release_contrib", token, main_ip, res) EXCEPT !.arg = contributor]
        Named(d) == d.main_ip = main_ip /\ d.contributor = contributor
        OnIp(d) == d.main_ip = main_ip
    IN
    /\ IF user = NoUser
       THEN /\ last' = R("403")
            /\ UNCHANGED <<systems_col, active_col, contributors_col, logs_col, now>>
       ELSE IF Matches(contributors_col, Named) = {}
       THEN /\ last' = R("nocontrib")
            /\ UNCHANGED <<systems_col, active_col, contributors_col, logs_col, now>>
       ELSE LET c == contributors_col[Min(Matches(contributors_col, Named))]
                left == DeleteOne(contributors_col, Named)
                remaining == Cardinality(Matches(left, OnIp))
                main_released == \E a \in active_col : a.ip = main_ip /\ a.main_released
            IN
            /\ logs_col' = Append(logs_col,
                   [ip |-> main_ip, user |-> contributor, main_user |-> c.main_user,
                    project |-> c.project, duration |-> c.duration,
                    start_time |-> c.start_time, end_time |-> now,
                    is_contribution |-> TRUE])
            /\ now' = now + 1
            /\ contributors_col' = left
            /\ IF remaining = 0 /\ main_released
               THEN /\ systems_col' = systems_col \cup {main_ip}
                    /\ active_col' = {a \in active_col : a.ip # main_ip}
                    /\ last' = R("fully")
               ELSE /\ last' = R("released")
                    /\ UNCHANGED <<systems_col, active_col>>
    /\ UNCHANGED <<users_col, sessions_col, known>>

\* user_name of /assign: a user, a manager, and a name no user has
AppTargets == {"alice", "mgr", "carol"}
\* contributor of /release/contrib
AppContributors == {"alice", "bob"}

AppAssignReqs ==
    {[token |-> t, system |-> s, user_name |-> e, form |-> GoodForm] :
        t \in Tokens, s \in Systems, e \in AppTargets} \cup
    {[token |-> t, system |-> OneSystem, user_name |-> "alice", form |-> f] :
        t \in Tokens, f \in BadForms}

AppAssign ==
    /\ \E r \in AppAssignReqs :
           fastapi_app_assign_system(r.token, r.system, r.user_name,
                                     r.form.project, r.form.duration)
    /\ UNCHANGED <<proc, scene, issued>>
AppReleaseContribution ==
    /\ \E t \in Tokens, ip \in Ips, c \in AppContributors :
           fastapi_app_release_contrib(t, ip, c)
    /\ UNCHANGED <<proc, scene, issued>>

\* every request to the variant, until the clock reaches MaxAppTime
NextApp ==
    \/ AddMachine /\ now' <= MaxAppTime
    \/ Book /\ now' <= MaxAppTime
    \/ AppAssign /\ now' <= MaxAppTime
    \/ SelfContribute /\ now' <= MaxAppTime
    \/ ReleasePrimary /\ now' <= MaxAppTime
    \/ AppReleaseContribution /\ now' <= MaxAppTime
    \/ RemoveMachine /\ now' <= MaxAppTime
SpecApp == Init /\ [][NextApp]_vars

(* ------------------------------ sessions ------------------------------ *)
\* secrets.token_urlsafe(64): a value no earlier call returned
NewToken == "tok_" \o ToString(issued + 1)

\* login_user of database.py: the user document when the password matches
login_user(email, password) ==
    IF users_col[email] # "none" /\ password = "right"
    THEN [email |-> email, role |-> users_col[email]]
    ELSE NoUser

\* /login with insert_one in place of the upsert on email
login_submit_Insert(email, password) ==
    LET user == login_user(email, password) IN
    /\ IF user = NoUser
       THEN /\ last' = [Req("login_submit", "", NoField, "invalid") EXCEPT !.arg = email]
            /\ UNCHANGED <<sessions_col, issued>>
       ELSE /\ issued' = issued + 1
            /\ sessions_col' = sessions_col \cup
                   {[email |-> user.email, session_token |-> NewToken,
                     expires_at |-> now + SessionDays]}
            /\ last' = [Req("login_submit", NewToken, NoField, "ok") EXCEPT !.arg = email]
    /\ UNCHANGED <<users_col, systems_col, active_col, contributors_col, logs_col,
                   now, known>>

\* POST /login
login_submit(email, password) ==
    LET user == login_user(email, password) IN
    /\ IF user = NoUser
       THEN /\ last' = [Req("login_submit", "", NoField, "invalid") EXCEPT !.arg = email]
            /\ UNCHANGED <<sessions_col, issued>>
       ELSE /\ issued' = issued + 1
            /\ sessions_col' = {s \in sessions_col : s.email # user.email} \cup
                   {[email |-> user.email, session_token |-> NewToken,
                     expires_at |-> now + SessionDays]}
            /\ last' = [Req("login_submit", NewToken, NoField, "ok") EXCEPT !.arg = email]
    /\ UNCHANGED <<users_col, systems_col, active_col, contributors_col, logs_col,
                   now, known>>

\* /logout with the delete keyed on nothing
logout_EverySession(token) ==
    /\ IF token # ""
       THEN sessions_col' = {}
       ELSE UNCHANGED sessions_col
    /\ last' = Req("logout", token, NoField, "login")
    /\ UNCHANGED <<users_col, systems_col, active_col, contributors_col, logs_col,
                   now, known, issued>>

\* GET /logout
logout(token) ==
    /\ IF token # ""
       THEN sessions_col' = {s \in sessions_col : s.session_token # token}
       ELSE UNCHANGED sessions_col
    /\ last' = Req("logout", token, NoField, "login")
    /\ UNCHANGED <<users_col, systems_col, active_col, contributors_col, logs_col,
                   now, known, issued>>

\* GET /dashboard: the page for the user behind the cookie, or the way to /login
dashboard(token) ==
    LET user == get_current_user(token) IN
    /\ last' = [Req("dashboard", token, NoField,
                    IF user = NoUser THEN "login" ELSE "page")
                  EXCEPT !.arg = user.email]
    /\ UNCHANGED <<store, now, known, issued>>

\* a day passes with no request
Tick ==
    /\ now' = now + 1
    /\ last' = Req("none", "", NoField, NoField)
    /\ UNCHANGED <<store, known, issued>>

\* the cookies a browser may hold: those of Init, none, and those issued later
AuthTokens == {"", "tok_alice", "tok_stale"} \cup {"tok_" \o ToString(i) : i \in 1..MaxIssued}
Passwords == {"right", "wrong"}
Logins == {"alice", "bob", "carol"}

Login ==
    /\ \E e \in Logins, pw \in Passwords : login_submit(e, pw)
    /\ issued' <= MaxIssued
    /\ UNCHANGED <<proc, scene>>
Logout ==
    /\ \E t \in AuthTokens : logout(t)
    /\ UNCHANGED <<proc, scene>>
Dashboard ==
    /\ \E t \in AuthTokens : dashboard(t)
    /\ UNCHANGED <<proc, scene>>
Day ==
    /\ Tick
    /\ now' <= MaxAuthTime
    /\ UNCHANGED <<proc, scene>>

\* logins, logouts and page loads over MaxAuthTime days
NextAuth ==
    \/ Login
    \/ Logout
    \/ Dashboard
    \/ Day
SpecAuth == Init /\ [][NextAuth]_vars

(* ----------------------- interleaved handlers ------------------------ *)
\* Each action below is one store call of a handler of src/main.py, run by
\* worker w; the gate and the form checks are the step that takes the request.
\* The handlers never await, so one server process runs each to its end; the
\* workers are the processes that serve the same database.
Take(w, op, token, ip) ==
    [Idle(proc[w].served + 1) EXCEPT !.op = op, !.token = token, !.ip = ip]
Goto(w, r) == proc' = [proc EXCEPT ![w] = r]
Done(w, res) == Goto(w, [proc[w] EXCEPT !.pc = "done", !.res = res])
At(w, pc) == proc[w].pc = pc
CanTake(w) == At(w, "idle") /\ proc[w].served < MaxServed

Frame == UNCHANGED <<users_col, sessions_col, last, scene, issued>>

\* book_system up to the try block
ConcBookStart(w, token, ip, project, duration) ==
    LET user == get_current_user(token)
        r == Take(w, "book_system", token, ip)
    IN
    /\ IF user = NoUser THEN Goto(w, [r EXCEPT !.pc = "done", !.res = "login"])
       ELSE IF BadForm(project, duration)
       THEN Goto(w, [r EXCEPT !.pc = "done", !.res = "invalid"])
       ELSE Goto(w, [r EXCEPT !.pc = "delete", !.who = user.email])
    /\ Frame
    /\ UNCHANGED <<systems_col, active_col, contributors_col, logs_col, now, known>>

\* assign_system up to the try block and the parse of the label
ConcAssignStart(w, token, system, user_email, project, duration) ==
    LET user == get_current_user(token)
        r == Take(w, "assign_system", token, system.ip)
    IN
    /\ IF user = NoUser \/ NotPrivileged(user)
       THEN Goto(w, [r EXCEPT !.pc = "done", !.res = "denied"])
       ELSE IF BadForm(project, duration)
       THEN Goto(w, [r EXCEPT !.pc = "done", !.res = "invalid"])
       ELSE IF users_col[user_email] # "user"
       THEN Goto(w, [r EXCEPT !.pc = "done", !.res = "notfound"])
       ELSE IF system.fmt = "free"
       THEN Goto(w, [r EXCEPT !.pc = "delete", !.who = user_email])
       ELSE IF system.fmt # "using"
       THEN Goto(w, [r EXCEPT !.pc = "done", !.res = "badformat"])
       ELSE Goto(w, [r EXCEPT !.pc = "find_owner", !.who = user_email,
                              !.owner = system.owner, !.project = project])
    /\ Frame
    /\ UNCHANGED <<systems_col, active_col, contributors_col, logs_col, now, known>>

\* systems_col.delete_one({"ip": ip}) of book_system and assign_system
ConcDelete(w) ==
    /\ At(w, "delete")
    /\ systems_col' = systems_col \ {proc[w].ip}
    /\ Goto(w, [proc[w] EXCEPT !.pc = "insert"])
    /\ Frame
    /\ UNCHANGED <<active_col, contributors_col, logs_col, now, known>>

\* the insert kept although the ip is there: update_one(..., upsert=True)
ConcInsert_Upsert(w) ==
    /\ At(w, "insert")
    /\ active_col' = {a \in active_col : a.ip # proc[w].ip} \cup
                       {ActiveDoc(proc[w].ip, proc[w].who, GoodForm.project,
                                  GoodForm.duration)}
    /\ now' = now + 1
    /\ Done(w, "ok")
    /\ Frame
    /\ UNCHANGED <<systems_col, contributors_col, logs_col, known>>

\* active_col.insert_one({...}) of book_system and assign_system, with the
\* except branch that answers a duplicate key
ConcInsert(w) ==
    /\ At(w, "insert")
    /\ IF ActiveDup(proc[w].ip)
       THEN /\ Done(w, "failed")
            /\ UNCHANGED <<active_col, now>>
       ELSE /\ active_col' = active_col \cup
                               {ActiveDoc(proc[w].ip, proc[w].who, GoodForm.project,
                                          GoodForm.duration)}
            /\ now' = now + 1
            /\ Done(w, "ok")
    /\ Frame
    /\ UNCHANGED <<systems_col, contributors_col, logs_col, known>>

\* users_col.find_one({"email": owner_email}) of assign_system
ConcFindOwner(w) ==
    /\ At(w, "find_owner")
    /\ IF proc[w].owner \notin Emails \/ users_col[proc[w].owner] = "none"
       THEN Done(w, "badowner")
       ELSE Goto(w, [proc[w] EXCEPT !.pc = "insert_contrib"])
    /\ Frame
    /\ UNCHANGED <<systems_col, active_col, contributors_col, logs_col, now, known>>

\* contributors_col.insert_one({...}) of assign_system and self_contribute,
\* with the except branch that answers a duplicate key
ConcInsertContrib(w) ==
    LET doc == ContribDoc(proc[w].ip, proc[w].owner, proc[w].who, proc[w].project,
                          GoodForm.duration)
    IN
    /\ At(w, "insert_contrib")
    /\ IF ContribDup(doc)
       THEN /\ Done(w, "failed")
            /\ UNCHANGED <<contributors_col, now>>
       ELSE /\ contributors_col' = Append(contributors_col, doc)
            /\ now' = now + 1
            /\ Done(w, "ok")
    /\ Frame
    /\ UNCHANGED <<systems_col, active_col, logs_col, known>>

\* add_system up to the try block
ConcAddStart(w, token, ip) ==
    LET user == get_current_user(token)
        r == Take(w, "add_system", token, ip)
    IN
    /\ IF user = NoUser \/ NotPrivileged(user)
       THEN Goto(w, [r EXCEPT !.pc = "done", !.res = "denied"])
       ELSE IF ~validate_ip(ip)
       THEN Goto(w, [r EXCEPT !.pc = "done", !.res = "invalid"])
       ELSE Goto(w, [r EXCEPT !.pc = "add_insert"])
    /\ Frame
    /\ UNCHANGED <<systems_col, active_col, contributors_col, logs_col, now, known>>

\* systems_col.insert_one({"ip": ip}) of add_system
ConcAddInsert(w) ==
    /\ At(w, "add_insert")
    /\ IF SystemsDup(proc[w].ip)
       THEN /\ Done(w, "exists")
            /\ UNCHANGED <<systems_col, known>>
       ELSE /\ systems_col' = systems_col \cup {proc[w].ip}
            /\ known' = known \cup {proc[w].ip}
            /\ Done(w, "ok")
    /\ Frame
    /\ UNCHANGED <<active_col, contributors_col, logs_col, now>>

\* release_main: the gate
ConcReleaseStart(w, token, ip) ==
    LET user == get_current_user(token)
        r == Take(w, "release_main", token, ip)
    IN
    /\ IF user = NoUser THEN Goto(w, [r EXCEPT !.pc = "done", !.res = "403"])
       ELSE Goto(w, [r EXCEPT !.pc = "find_record", !.who = user.email])
    /\ Frame
    /\ UNCHANGED <<systems_col, active_col, contributors_col, logs_col, now, known>>

\* record = active_col.find_one({"ip": ip, "user": user["email"]})
ConcFindRecord(w) ==
    LET found == {a \in active_col : a.ip = proc[w].ip /\ a.user = proc[w].who} IN
    /\ At(w, "find_record")
    /\ IF found = {} THEN Done(w, "404")
       ELSE Goto(w, [proc[w] EXCEPT !.pc = "count",
                       !.record = CHOOSE a \in found : TRUE])
    /\ Frame
    /\ UNCHANGED <<systems_col, active_col, contributors_col, logs_col, now, known>>

\* contrib_count = contributors_col.count_documents({...})
ConcCount(w) ==
    LET Theirs(d) == d.main_ip = proc[w].ip /\ d.main_user = proc[w].who IN
    /\ At(w, "count")
    /\ Goto(w, [proc[w] EXCEPT !.pc = "log",
                  !.contrib_count = Cardinality(Matches(contributors_col, Theirs))])
    /\ Frame
    /\ UNCHANGED <<systems_col, active_col, contributors_col, logs_col, now, known>>

\* logs_col.insert_one({...}) of release_main
ConcLog(w) ==
    /\ At(w, "log")
    /\ logs_col' = Append(logs_col,
           [ip |-> proc[w].ip, user |-> proc[w].who, main_user |-> NoField,
            project |-> proc[w].record.project, duration |-> proc[w].record.duration,
            start_time |-> proc[w].record.start_time, end_time |-> now,
            is_contribution |-> FALSE])
    /\ now' = now + 1
    /\ Goto(w, [proc[w] EXCEPT
                  !.pc = IF proc[w].contrib_count = 0 THEN "free_insert" ELSE "flag"])
    /\ Frame
    /\ UNCHANGED <<systems_col, active_col, contributors_col, known>>

\* try: systems_col.insert_one({"ip": ip}) except: pass, of both releases
ConcFreeInsert(w) ==
    /\ At(w, "free_insert")
    /\ systems_col' = systems_col \cup {proc[w].ip}
    /\ Goto(w, [proc[w] EXCEPT !.pc = "active_delete"])
    /\ Frame
    /\ UNCHANGED <<active_col, contributors_col, logs_col, now, known>>

\* active_col.delete_one({"ip": ip}) of release_main and release_contrib
ConcActiveDelete(w) ==
    /\ At(w, "active_delete")
    /\ active_col' = {a \in active_col : a.ip # proc[w].ip}
    /\ Done(w, IF proc[w].op = "release_contrib" THEN "fully" ELSE "released")
    /\ Frame
    /\ UNCHANGED <<systems_col, contributors_col, logs_col, now, known>>

\* active_col.update_one({"ip": ip}, {"$set": {"main_released": True}})
ConcFlag(w) ==
    /\ At(w, "flag")
    /\ active_col' = {IF a.ip = proc[w].ip THEN [a EXCEPT !.main_released = TRUE]
                      ELSE a : a \in active_col}
    /\ Done(w, "remain")
    /\ Frame
    /\ UNCHANGED <<systems_col, contributors_col, logs_col, now, known>>

\* release_contrib: the gate
ConcContribStart(w, token, main_ip) ==
    LET user == get_current_user(token)
        r == Take(w, "release_contrib", token, main_ip)
    IN
    /\ IF user = NoUser THEN Goto(w, [r EXCEPT !.pc = "done", !.res = "403"])
       ELSE Goto(w, [r EXCEPT !.pc = "find_contrib", !.who = user.email])
    /\ Frame
    /\ UNCHANGED <<systems_col, active_col, contributors_col, logs_col, now, known>>

\* c = contributors_col.find_one({"main_ip": main_ip, "contributor": user["email"]})
ConcFindContrib(w) ==
    LET Mine(d) == d.main_ip = proc[w].ip /\ d.contributor = proc[w].who IN
    /\ At(w, "find_contrib")
    /\ IF Matches(contributors_col, Mine) = {} THEN Done(w, "nocontrib")
       ELSE Goto(w, [proc[w] EXCEPT !.pc = "contrib_log",
                       !.record = contributors_col[Min(Matches(contributors_col, Mine))]])
    /\ Frame
    /\ UNCHANGED <<systems_col, active_col, contributors_col, logs_col, now, known>>

\* logs_col.insert_one({...}) of release_contrib
ConcContribLog(w) ==
    /\ At(w, "contrib_log")
    /\ logs_col' = Append(logs_col,
           [ip |-> proc[w].ip, user |-> proc[w].who,
            main_user |-> proc[w].record.main_user,
            project |-> proc[w].record.project, duration |-> proc[w].record.duration,
            start_time |-> proc[w].record.start_time, end_time |-> now,
            is_contribution |-> TRUE])
    /\ now' = now + 1
    /\ Goto(w, [proc[w] EXCEPT !.pc = "contrib_delete"])
    /\ Frame
    /\ UNCHANGED <<systems_col, active_col, contributors_col, known>>

\* contributors_col.delete_one({"main_ip": main_ip, "contributor": user["email"]})
ConcContribDelete(w) ==
    LET Mine(d) == d.main_ip = proc[w].ip /\ d.contributor = proc[w].who IN
    /\ At(w, "contrib_delete")
    /\ contributors_col' = DeleteOne(contributors_col, Mine)
    /\ Goto(w, [proc[w] EXCEPT !.pc = "remaining"])
    /\ Frame
    /\ UNCHANGED <<systems_col, active_col, logs_col, now, known>>

\* remaining = contributors_col.count_documents({"main_ip": main_ip})
ConcRemaining(w) ==
    LET OnIp(d) == d.main_ip = proc[w].ip IN
    /\ At(w, "remaining")
    /\ Goto(w, [proc[w] EXCEPT !.pc = "main_released",
                  !.contrib_count = Cardinality(Matches(contributors_col, OnIp))])
    /\ Frame
    /\ UNCHANGED <<systems_col, active_col, contributors_col, logs_col, now, known>>

\* main_released = active_col.find_one({"ip": main_ip, "main_released": True})
\* and the test of remaining == 0 and main_released
ConcMainReleased(w) ==
    LET main_released == \E a \in active_col : a.ip = proc[w].ip /\ a.main_released IN
    /\ At(w, "main_released")
    /\ IF proc[w].contrib_count = 0 /\ main_released
       THEN Goto(w, [proc[w] EXCEPT !.pc = "free_insert"])
       ELSE Done(w, "released")
    /\ Frame
    /\ UNCHANGED <<systems_col, active_col, contributors_col, logs_col, now, known>>

\* self_contribute up to the lookup of a contribution of the caller
ConcSelfStart(w, token, system, project, duration) ==
    LET user == get_current_user(token)
        r == Take(w, "self_contribute", token, system.ip)
    IN
    /\ IF user = NoUser THEN Goto(w, [r EXCEPT !.pc = "done", !.res = "login"])
       ELSE IF user.role # "user"
       THEN Goto(w, [r EXCEPT !.pc = "done", !.res = "denied"])
       ELSE IF BadForm(project, duration)
       THEN Goto(w, [r EXCEPT !.pc = "done", !.res = "invalid"])
       ELSE IF system.fmt # "using"
       THEN Goto(w, [r EXCEPT !.pc = "done", !.res = "badformat"])
       ELSE Goto(w, [r EXCEPT !.pc = "already", !.who = user.email,
                              !.owner = system.owner, !.project = project])
    /\ Frame
    /\ UNCHANGED <<systems_col, active_col, contributors_col, logs_col, now, known>>

\* already = contributors_col.find_one({"main_ip": ip, "contributor": user["email"]})
ConcAlready(w) ==
    LET Mine(d) == d.main_ip = proc[w].ip /\ d.contributor = proc[w].who IN
    /\ At(w, "already")
    /\ IF Matches(contributors_col, Mine) # {} THEN Done(w, "already")
       ELSE Goto(w, [proc[w] EXCEPT !.pc = "insert_contrib"])
    /\ Frame
    /\ UNCHANGED <<systems_col, active_col, contributors_col, logs_col, now, known>>

\* the response is sent and the worker takes the next request
ConcReturn(w) ==
    /\ At(w, "done")
    /\ Goto(w, Idle(proc[w].served))
    /\ Frame
    /\ UNCHANGED <<systems_col, active_col, contributors_col, logs_col, now, known>>

\* self_contribute forms naming the occupied ip and its occupant with the
\* second project
ConcProjectReqs ==
    {[token |-> t, system |-> [fmt |-> "using", ip |-> "10.0.0.5", owner |-> "alice"],
      form |-> OtherForm] : t \in {"tok_alice", "tok_bob"}}

\* the states SpecConc starts in: the ip Free, booked by alice, and booked by
\* alice with bob contributing
InitConc ==
    /\ users_col = [e \in Emails |->
                      CASE e = "mgr" -> "manager"
                        [] e = "carol" -> "none"
                        [] OTHER -> "user"]
    /\ sessions_col = {[email |-> e, session_token |-> "tok_" \o e,
                        expires_at |-> SessionDays] : e \in {"alice", "bob", "mgr"}}
    /\ logs_col = <<>>
    /\ known = {"10.0.0.5"}
    /\ last = Req("none", "", NoField, NoField)
    /\ proc = [w \in Workers |-> Idle(0)]
    /\ issued = 0
    /\ scene \in {"free", "booked", "shared"}
    /\ systems_col = IF scene = "free" THEN {"10.0.0.5"} ELSE {}
    /\ active_col = IF scene = "free" THEN {}
                    ELSE {[ip |-> "10.0.0.5", user |-> "alice", project |-> "proj-x",
                           duration |-> "2", start_time |-> 0, main_released |-> FALSE]}
    /\ contributors_col = IF scene = "shared"
                          THEN <<[main_ip |-> "10.0.0.5", main_user |-> "alice",
                                  contributor |-> "bob", project |-> "proj-x",
                                  duration |-> "2", start_time |-> 1]>>
                          ELSE <<>>
    /\ now = CASE scene = "free" -> 0 [] scene = "booked" -> 1 [] OTHER -> 2

NextConc ==
    \E w \in Workers :
        \/ CanTake(w) /\ \E t \in Tokens, ip \in Ips, f \in {GoodForm} \cup BadForms :
               ConcBookStart(w, t, ip, f.project, f.duration)
        \/ CanTake(w) /\ \E r \in AssignReqs :
               ConcAssignStart(w, r.token, r.system, r.user_email,
                               r.form.project, r.form.duration)
        \/ ConcDelete(w)
        \/ ConcInsert(w)
        \/ ConcFindOwner(w)
        \/ ConcInsertContrib(w)
        \/ CanTake(w) /\ \E t \in Tokens, ip \in AddIps : ConcAddStart(w, t, ip)
        \/ ConcAddInsert(w)
        \/ CanTake(w) /\ \E t \in Tokens, ip \in Ips : ConcReleaseStart(w, t, ip)
        \/ ConcFindRecord(w)
        \/ ConcCount(w)
        \/ ConcLog(w)
        \/ ConcFreeInsert(w)
        \/ ConcActiveDelete(w)
        \/ ConcFlag(w)
        \/ CanTake(w) /\ \E t \in Tokens, ip \in Ips : ConcContribStart(w, t, ip)
        \/ ConcFindContrib(w)
        \/ ConcContribLog(w)
        \/ ConcContribDelete(w)
        \/ ConcRemaining(w)
        \/ ConcMainReleased(w)
        \/ CanTake(w) /\ \E r \in SelfReqs \cup ConcProjectReqs :
               ConcSelfStart(w, r.token, r.system, r.form.project, r.form.duration)
        \/ ConcAlready(w)
        \/ ConcReturn(w)

SpecConc == InitConc /\ [][NextConc]_vars

\* book_system and release_main alone, each worker serving up to MaxSpanServed
\* requests one after the other, so that a release still in flight can meet
\* the booking that follows another release of the same span
SpanTokens == {"tok_alice", "tok_bob"}
CanTakeAgain(w) == At(w, "idle") /\ proc[w].served < MaxSpanServed
InitSpans == InitConc /\ scene \in {"booked", "shared"}
NextSpans ==
    \E w \in Workers :
        \/ CanTakeAgain(w) /\ \E t \in SpanTokens, ip \in Ips :
               ConcBookStart(w, t, ip, GoodForm.project, GoodForm.duration)
        \/ ConcDelete(w)
        \/ ConcInsert(w)
        \/ CanTakeAgain(w) /\ \E t \in SpanTokens, ip \in Ips : ConcReleaseStart(w, t, ip)
        \/ ConcFindRecord(w)
        \/ ConcCount(w)
        \/ ConcLog(w)
        \/ ConcFreeInsert(w)
        \/ ConcActiveDelete(w)
        \/ ConcFlag(w)
        \/ ConcReturn(w)

SpecSpans == InitSpans /\ [][NextSpans]_vars


(* ------------------------------ claims -------------------------------- *)
OccupiedNext(ip) == \E a \in active_col' : a.ip = ip
Rows(col, ip) == {i \in 1..Len(col) : col[i].main_ip = ip}
RowsOf(col, ip, who) ==
    {i \in 1..Len(col) : col[i].main_ip = ip /\ col[i].contributor = who}
\* the step appended a UsageLog, which only the two release handlers do
Logged == Len(logs_col') = Len(logs_col) + 1
NewLog == logs_col'[Len(logs_col')]

\* C1: every ip added and not removed is in exactly one of systems (Free) and
\* active_usage, never in both and never in neither.
C1_ExactlyOneState ==
    \A ip \in known : (ip \in systems_col) # Occupied(ip)

\* C2: two handlers book the same Free ip at once (Book or AssignFree, in any
\* interleaving of their store calls) while active_usage.ip is unique: one
\* succeeds and the other ends in the handled duplicate-key answer, the one
\* active record names the successful request's occupant, and the ip is not Free.
C2_Books(w) ==
    /\ proc[w].pc = "done"
    /\ proc[w].op \in {"book_system", "assign_system"}
    /\ proc[w].res \in {"ok", "failed"}
    /\ proc[w].owner = NoField
C2_ConcurrentBook ==
    \A w1, w2 \in Workers :
        (w1 # w2 /\ scene = "free" /\ C2_Books(w1) /\ C2_Books(w2)
             /\ proc[w1].served = 1 /\ proc[w2].served = 1)
        => /\ {proc[w1].res, proc[w2].res} = {"ok", "failed"}
           /\ \A w \in {w1, w2} : proc[w].res = "ok"
                  => {a.user : a \in {b \in active_col : b.ip = proc[w].ip}}
                        = {proc[w].who}
           /\ Cardinality({a \in active_col : a.ip = proc[w1].ip}) = 1
           /\ proc[w1].ip \notin systems_col
C2_Witness ==
    /\ scene = "free"
    /\ C2_Books(1) /\ C2_Books(2)
    /\ proc[1].served = 1 /\ proc[2].served = 1
    /\ proc[1].op # proc[2].op
    /\ proc[1].who # proc[2].who
    /\ proc[1].res = "failed"

\* C3: Book of a Free ip followed at once by ReleasePrimary of the same ip by
\* the same caller leaves the ip Free, not in active_usage, and appends exactly
\* one UsageLog, which has is_contribution = FALSE.
C3_BookThenRelease ==
    [][(/\ last.op = "book_system" /\ last.res = "ok" /\ last.ip \in known
        /\ last'.op = "release_main" /\ last'.token = last.token
        /\ last'.ip = last.ip)
       => (/\ last.ip \in systems_col'
           /\ ~OccupiedNext(last.ip)
           /\ Logged
           /\ NewLog.is_contribution = FALSE)]_vars

\* C4: ReleasePrimary by the primary occupant while a Contribution exists for
\* the ip keeps the ActiveUsage record, now with main_released = TRUE, adds
\* nothing to Free, leaves every Contribution row as it was and appends one
\* UsageLog with is_contribution = FALSE.
C4_ReleaseWithContributors ==
    [][(/\ last'.op = "release_main" /\ Logged
        /\ Rows(contributors_col, last'.ip) # {})
       => (/\ \E a \in active_col :
                /\ a.ip = last'.ip
                /\ active_col' = (active_col \ {a}) \cup
                                   {[a EXCEPT !.main_released = TRUE]}
           /\ systems_col' = systems_col
           /\ contributors_col' = contributors_col
           /\ NewLog.is_contribution = FALSE)]_vars

\* C5: ReleaseContribution returns the machine to Free (ActiveUsage deleted,
\* Free record present) exactly when no contribution is left for the ip after
\* the caller's is removed and the ActiveUsage record has main_released = TRUE;
\* otherwise the machine stays Occupied.  Book(alice), SelfContribute(bob),
\* ReleasePrimary(alice), ReleaseContribution(bob) ends Free with 2 UsageLogs.
C5_LastOut ==
    \E a \in active_col : a.ip = last'.ip /\ a.main_released

C5_Scenario ==
    (/\ Len(logs_col) = 2
     /\ logs_col[1] = [ip |-> "10.0.0.5", user |-> "alice", main_user |-> NoField,
                       project |-> "proj-x", duration |-> "2", start_time |-> 0,
                       end_time |-> 2, is_contribution |-> FALSE]
     /\ logs_col[2] = [ip |-> "10.0.0.5", user |-> "bob", main_user |-> "alice",
                       project |-> "proj-x", duration |-> "2", start_time |-> 1,
                       end_time |-> 3, is_contribution |-> TRUE]
     /\ last.op = "release_contrib")
    => ("10.0.0.5" \in systems_col /\ ~Occupied("10.0.0.5"))

C5_ReleaseContribution ==
    /\ [][(last'.op = "release_contrib" /\ Logged)
          => IF Rows(contributors_col', last'.ip) = {} /\ C5_LastOut
             THEN last'.ip \in systems_col' /\ ~OccupiedNext(last'.ip)
             ELSE OccupiedNext(last'.ip)]_vars
    /\ []C5_Scenario

\* C6: AssignContribute or SelfContribute naming an ip that is not in
\* active_usage fails: it creates no Contribution row and changes no collection.
C6_ContributeNeedsOccupied ==
    [][(/\ last'.op \in {"assign_system", "self_contribute"}
        /\ ~Occupied(last'.ip)
        /\ active_col' = active_col)
       => (last'.res # "ok" /\ UNCHANGED store)]_vars

\* C7: SelfContribute by an identity that already has a Contribution row on
\* the ip is refused, and the rows of that (ip, identity) stay exactly one.
C7_NoDuplicateSelfContribution ==
    [][(/\ last'.op = "self_contribute"
        /\ get_current_user(last'.token) # NoUser
        /\ RowsOf(contributors_col, last'.ip,
                  get_current_user(last'.token).email) # {})
       => (/\ last'.res # "ok"
           /\ Cardinality(RowsOf(contributors_col', last'.ip,
                                 get_current_user(last'.token).email)) = 1)]_vars

\* C8: every ActiveUsage record yields exactly one UsageLog with
\* is_contribution = FALSE when it leaves by ReleasePrimary and every
\* Contribution row exactly one with is_contribution = TRUE when it leaves by
\* ReleaseContribution: no span is logged twice, none is released unlogged.
SameSpan(l, m) ==
    /\ l.ip = m.ip /\ l.user = m.user /\ l.start_time = m.start_time
    /\ l.is_contribution = m.is_contribution

C8_OneLogPerSpan ==
    \A i, j \in 1..Len(logs_col) : i # j => ~SameSpan(logs_col[i], logs_col[j])

\* C9: a request whose caller fails the role check (no identity behind the
\* cookie, on any handler; role user on /assign, /add/system, /remove/system;
\* role assigner or manager on /self/contribute) is refused and leaves users,
\* systems, active_usage, contributors, usage_logs and sessions unchanged.
C9_FailsRoleCheck(op, token) ==
    LET user == get_current_user(token) IN
    \/ /\ user = NoUser
       /\ op \in {"book_system", "assign_system", "self_contribute", "release_main",
                  "release_contrib", "add_system", "remove_system", "promote_user"}
    \/ /\ user.role = "user"
       /\ op \in {"assign_system", "add_system", "remove_system"}
    \/ /\ user.role \in {"assigner", "manager"}
       /\ op = "self_contribute"

C9_ForbiddenLeavesStore ==
    [][C9_FailsRoleCheck(last'.op, last'.token)
       => (last'.res \in {"login", "denied", "403"} /\ UNCHANGED store)]_vars

\* a user was refused /assign while a machine was occupied, and an assigner
\* was refused /self/contribute
C9_Witness ==
    /\ last.op = "self_contribute" /\ last.res = "denied"
    /\ last.token = "tok_alice" /\ users_col["alice"] = "assigner"
    /\ active_col # {}

\* C10: a role changes only by /promote from a caller whose role is manager,
\* to assigner or manager; /promote from any other caller is refused with 403
\* and changes no role, a role outside {assigner, manager} changes no role,
\* and no other handler changes a role.
C10_RoleChanged ==
    \E e \in Emails : users_col[e] # "none" /\ users_col'[e] # users_col[e]

C10_OnlyManagerPromotes ==
    [][/\ C10_RoleChanged
          => (/\ last'.op = "promote_user"
              /\ get_current_user(last'.token).role = "manager"
              /\ last'.arg \in {"assigner", "manager"})
       /\ (/\ last'.op = "promote_user"
           /\ get_current_user(last'.token).role # "manager")
          => (last'.res = "403" /\ users_col' = users_col)
       /\ (last'.op = "promote_user" /\ last'.arg \notin {"assigner", "manager"})
          => users_col' = users_col]_vars

\* the manager promoted alice, and alice, now an assigner, was refused /promote
C10_Witness ==
    /\ last.op = "promote_user" /\ last.res = "403" /\ last.token = "tok_alice"
    /\ users_col["alice"] = "assigner"

\* C11: ReleasePrimary by an authenticated caller who is not the primary
\* occupant of the ip (the ip Free or unknown included) finds no active record:
\* it fails, writes no UsageLog and changes neither active_usage, systems nor
\* contributors.
C11_NotPrimary(token, ip) ==
    /\ get_current_user(token) # NoUser
    /\ ~\E a \in active_col : a.ip = ip /\ a.user = get_current_user(token).email
C11_ReleaseByStranger ==
    [][(last'.op = "release_main" /\ C11_NotPrimary(last'.token, last'.ip))
       => (/\ last'.res = "404"
           /\ UNCHANGED <<logs_col, active_col, systems_col, contributors_col>>)]_vars
\* bob was refused the release of the machine alice occupies
C11_Witness ==
    /\ last.op = "release_main" /\ last.res = "404" /\ last.token = "tok_bob"
    /\ \E a \in active_col : a.ip = last.ip /\ a.user = "alice"

\* C12: in both variants ReleaseContribution removes and logs only a
\* Contribution row whose contributor is the authenticated caller; when the
\* caller has no contribution on the ip the request fails, no row of anyone
\* else is removed and no UsageLog is written.
C12_Caller == get_current_user(last'.token).email
C12_OnlyOwnContribution ==
    [][last'.op = "release_contrib"
       => /\ Logged => (NewLog.user = C12_Caller /\ NewLog.is_contribution)
          /\ contributors_col' # contributors_col
                => \E i \in RowsOf(contributors_col, last'.ip, C12_Caller) :
                       contributors_col' = Remove(contributors_col, i)
          /\ RowsOf(contributors_col, last'.ip, C12_Caller) = {}
                => /\ last'.res \in {"403", "nocontrib"}
                   /\ UNCHANGED <<contributors_col, logs_col>>]_vars

\* C13: Book succeeds only when the ip is in Free right before the call; when
\* it is not (occupied, or never added) Book fails and creates no ActiveUsage
\* record.  On success the ip has left Free and an ActiveUsage record exists
\* with the caller as occupant, main_released = FALSE and no contributors.
C13_BookNeedsFree ==
    [][last'.op = "book_system"
       => /\ last'.ip \notin systems_col
                => (last'.res # "ok" /\ active_col' = active_col)
          /\ last'.res = "ok"
                => /\ last'.ip \notin systems_col'
                   /\ \E a \in active_col' :
                          /\ a.ip = last'.ip
                          /\ a.user = get_current_user(last'.token).email
                          /\ ~a.main_released
                   /\ Rows(contributors_col', last'.ip) = {}]_vars

\* C14: in both variants AssignFree and AssignContribute succeed only when the
\* target is an existing user whose role is user; for a target that does not
\* exist or is an assigner or manager the request fails, creates no
\* ActiveUsage or Contribution row and does not remove the ip from Free.
C14_TargetIsUser ==
    [][(last'.op = "assign_system" /\ users_col[last'.arg] # "user")
       => (/\ last'.res # "ok"
           /\ UNCHANGED <<active_col, contributors_col, systems_col>>)]_vars

\* C15: AssignContribute for a target that is already a contributor of the ip
\* under the same primary is refused: no second Contribution row is created
\* for that (ip, primary, target).
C15_NewRow == contributors_col'[Len(contributors_col')]
C15_NoSecondRow ==
    [][(last'.op = "assign_system" /\ Len(contributors_col') > Len(contributors_col))
       => ~\E i \in 1..Len(contributors_col) :
              /\ contributors_col[i].main_ip = C15_NewRow.main_ip
              /\ contributors_col[i].main_user = C15_NewRow.main_user
              /\ contributors_col[i].contributor = C15_NewRow.contributor]_vars

\* C16: RemoveMachine by an assigner or manager, whatever the state of the ip
\* (Free, occupied, occupied with contributors, released with contributors),
\* leaves no systems record, no ActiveUsage record and no Contribution row of
\* the ip, appends no UsageLog and leaves the records of every other ip as
\* they were.
C16_Elsewhere(col, ip) == SelectSeq(col, LAMBDA d : d.main_ip # ip)
C16_RemovePurges ==
    [][(/\ last'.op = "remove_system"
        /\ get_current_user(last'.token).role \in {"assigner", "manager"})
       => (/\ last'.ip \notin systems_col'
           /\ ~OccupiedNext(last'.ip)
           /\ Rows(contributors_col', last'.ip) = {}
           /\ logs_col' = logs_col
           /\ systems_col' \ {last'.ip} = systems_col \ {last'.ip}
           /\ {a \in active_col' : a.ip # last'.ip} = {a \in active_col : a.ip # last'.ip}
           /\ C16_Elsewhere(contributors_col', last'.ip)
                 = C16_Elsewhere(contributors_col, last'.ip))]_vars
\* the machine bob occupied with alice contributing was removed, beside
\* another machine that stays occupied
C16_Witness ==
    /\ last.op = "remove_system" /\ last.res = "ok" /\ last.ip = OtherIp
    /\ scene = "shared" /\ contributors_col = <<>>
    /\ Occupied("10.0.0.5")

\* C17: after any sequence of logins and logouts there is at most one Session
\* per identity, and after a further login of an identity the earlier token
\* resolves to no one while the new token resolves to that identity.
C17_ResolvesNext(token, email) ==
    \E s \in sessions_col' :
        /\ s.session_token = token /\ s.email = email
        /\ ~(s.expires_at < now') /\ users_col'[email] # "none"
C17_OneSession ==
    \A e \in Emails : Cardinality({s \in sessions_col : s.email = e}) <= 1
C17_OneSessionPerIdentity ==
    /\ []C17_OneSession
    /\ [][(last'.op = "login_submit" /\ last'.res = "ok")
          => /\ C17_ResolvesNext(last'.token, last'.arg)
             /\ \A s \in sessions_col, e \in Emails :
                    s.email = last'.arg => ~C17_ResolvesNext(s.session_token, e)]_vars
\* alice, who had a session, logged in again
C17_Witness ==
    /\ last.op = "login_submit" /\ last.res = "ok" /\ last.arg = "alice"
    /\ last.token = "tok_2"
    /\ \E s \in sessions_col : s.email = "bob"

\* C18: Authenticate returns no identity when no Session has the token or the
\* Session's expires_at is earlier than the clock, and otherwise the user of
\* the session, without the password; it never changes the Session, so a token
\* issued at t stops resolving once the clock is past t + 7 days however often
\* it was used.
C18_Session(token) == {s \in sessions_col : s.session_token = token}
C18_Expired ==
    \A s \in sessions_col :
        s.expires_at < now => get_current_user(s.session_token) = NoUser
C18_Authenticate ==
    /\ []C18_Expired
    /\ [][/\ last'.op = "dashboard"
             => /\ sessions_col' = sessions_col
                /\ IF \A s \in C18_Session(last'.token) : s.expires_at < now
                   THEN last'.res = "login"
                   ELSE /\ last'.res = "page"
                        /\ \E s \in C18_Session(last'.token) : s.email = last'.arg
                        /\ DOMAIN get_current_user(last'.token) = {"email", "role"}
          /\ (last'.op = "login_submit" /\ last'.res = "ok")
             => \E s \in sessions_col' :
                    s.session_token = last'.token /\ s.expires_at = now + SessionDays
          /\ \A s \in sessions_col, r \in sessions_col' :
                 s.session_token = r.session_token => r.expires_at = s.expires_at]_vars
\* a token issued by a login was refused once its seven days had passed
C18_Witness ==
    /\ last.op = "dashboard" /\ last.res = "login" /\ last.token = "tok_1"
    /\ \E s \in sessions_col : s.session_token = "tok_1" /\ s.expires_at < now

\* C19: Logout deletes the Session of the token, so that the token resolves
\* to no one afterwards; with no such Session it changes nothing, twice is as
\* once, and the Session of another identity is never deleted.
C19_Revoke ==
    [][last'.op = "logout"
       => /\ ~\E s \in sessions_col' : s.session_token = last'.token
          /\ \A s \in sessions_col :
                 s.session_token # last'.token => s \in sessions_col'
          /\ sessions_col' \subseteq sessions_col
          /\ (~\E s \in sessions_col : s.session_token = last'.token)
                 => UNCHANGED store
          /\ (last.op = "logout" /\ last.token = last'.token) => UNCHANGED store
          /\ UNCHANGED <<users_col, systems_col, active_col, contributors_col, logs_col>>]_vars
\* alice logged out and bob's session is still there
C19_Witness ==
    /\ last.op = "logout" /\ last.token = "tok_alice"
    /\ ~\E s \in sessions_col : s.email = "alice"
    /\ \E s \in sessions_col : s.email = "bob"

\* C20: a request with malformed input is refused before any write:
\* AddMachine with an ip that is not four dot-separated octets, each in
\* 0..255, creates no systems record, and Book, AssignFree, AssignContribute
\* and SelfContribute with a blank project or a duration that is not a number
\* above 0 change neither systems, active_usage nor contributors.
\* the dotted quads among the ip strings sent
C20_DottedQuads == {"10.0.0.5", "10.0.0.6"}
C20_BadAdd ==
    \E t \in Tokens, ip \in RawIps \ C20_DottedQuads : add_system(t, ip)
C20_BadFormRequest ==
    \/ \E t \in Tokens, ip \in Ips, f \in BadForms :
           book_system(t, ip, f.project, f.duration)
    \/ \E t \in Tokens, sy \in Systems, e \in Targets, f \in BadForms :
           assign_system(t, sy, e, f.project, f.duration)
    \/ \E t \in Tokens, sy \in Systems, f \in BadForms :
           self_contribute(t, sy, f.project, f.duration)
C20_MalformedRejected ==
    [][/\ C20_BadAdd => systems_col' = systems_col
       /\ C20_BadFormRequest
             => UNCHANGED <<systems_col, active_col, contributors_col>>]_vars

\* C21: no operation modifies or deletes a UsageLog entry: the log collection
\* only grows and every entry already there keeps all its fields.
C21_AppendOnly ==
    [][/\ Len(logs_col') >= Len(logs_col)
       /\ SubSeq(logs_col', 1, Len(logs_col)) = logs_col]_vars
\* a machine with a logged span was removed
C21_Witness ==
    /\ last.op = "remove_system" /\ last.res = "ok"
    /\ \E i \in 1..Len(logs_col) : logs_col[i].ip = last.ip
    /\ Len(logs_col) >= 2

\* C22: in every state reached by completed operations every Contribution
\* row's main_ip is the ip of an ActiveUsage record: none refers to a Free or
\* unknown machine.
C22_ContributionsOnOccupied ==
    \A i \in 1..Len(contributors_col) : Occupied(contributors_col[i].main_ip)

\* C23: ReleasePrimary and ReleaseContribution delete an ActiveUsage record
\* only when no Contribution row of that ip exists; ReleasePrimary only if
\* main_released was FALSE and there were no contributions, ReleaseContribution
\* only if main_released was TRUE already and the row it removed was the last.
C23_Deleted == {a \in active_col : ~OccupiedNext(a.ip)}
C23_DeleteOnlyWhenEmpty ==
    [][\A a \in C23_Deleted :
           /\ last'.op = "release_main"
                 => /\ ~a.main_released
                    /\ Rows(contributors_col, a.ip) = {}
                    /\ Rows(contributors_col', a.ip) = {}
           /\ last'.op = "release_contrib"
                 => /\ a.main_released
                    /\ Cardinality(Rows(contributors_col, a.ip)) = 1
                    /\ Rows(contributors_col', a.ip) = {}]_vars

\* No handler is in flight.
C25_Quiet == \A w \in Workers : proc[w].pc \in {"idle", "done"}

\* C25: with the handlers interleaved store call by store call and ip unique
\* in systems and in active_usage, whenever no handler is in flight every
\* known ip is in exactly one of systems and active_usage; stated for the
\* case the claim singles out, a Book racing with a ReleasePrimary, so that
\* AddMachine on an occupied ip (C1) is not what decides it.
C25_BookReleaseRace ==
    (C25_Quiet /\ \A w \in Workers : proc[w].op \in {"book_system", "release_main"})
        => \A ip \in known : (ip \in systems_col) # Occupied(ip)

\* the rows of contributors for (ip, who)
C26_Rows(ip, who) ==
    {i \in 1..Len(contributors_col) :
        contributors_col[i].main_ip = ip /\ contributors_col[i].contributor = who}
C26_Answered == {"ok", "failed", "already"}

\* C26: when two interleaved self_contribute requests by one identity on the
\* same occupied ip, each naming the occupant and sent by another user than the
\* occupant, have both returned, contributors
\* holds at most one row for that (ip, identity) and at most one of the two
\* was answered with success.
C26_OneRowPerIdentity ==
    (/\ scene = "booked"
     /\ \A w \in Workers :
           /\ proc[w].pc = "done" /\ proc[w].op = "self_contribute"
           /\ proc[w].res \in C26_Answered
           /\ proc[w].who = proc[1].who /\ proc[w].ip = proc[1].ip
           /\ proc[w].owner = "alice" /\ proc[w].who # "alice")
        => /\ Cardinality(C26_Rows(proc[1].ip, proc[1].who)) <= 1
           /\ \E w \in Workers : proc[w].res # "ok"

\* worker w has completed the release of kind op for who
C27_Released(w, op, who) ==
    /\ proc[w].pc = "done" /\ proc[w].op = op /\ proc[w].who = who
    /\ proc[w].ip = "10.0.0.5"
    /\ proc[w].res \in {"released", "remain", "fully"}

\* C27: from the ip occupied by alice with bob its only contributor, once
\* alice's release_main and bob's release_contrib have both completed, in
\* whatever order their store calls interleaved, the ip is in systems and
\* there is no active_usage record and no contributors row for it.
C27_AllReleasedIsFree ==
    (/\ scene = "shared"
     /\ \E w, v \in Workers :
           /\ w # v
           /\ C27_Released(w, "release_main", "alice")
           /\ C27_Released(v, "release_contrib", "bob"))
        => /\ "10.0.0.5" \in systems_col
           /\ ~Occupied("10.0.0.5")
           /\ contributors_col = <<>>

\* the span (ip, who, st) has a UsageLog of kind c
C24_SpanLog(ip, who, st, c) ==
    \E i \in 1..Len(logs_col) :
        /\ logs_col[i].ip = ip /\ logs_col[i].user = who
        /\ logs_col[i].start_time = st /\ logs_col[i].is_contribution = c
C24_AllRows(col) == {col[i] : i \in 1..Len(col)}

\* C24: whenever a step of release_main or release_contrib deletes or flags
\* an active_usage record, or deletes a contributors row, the UsageLog of
\* that very span (same ip, identity and start_time) is already in usage_logs.
C24_SpanLoggedFirst ==
    [][/\ \A a \in active_col :
              a \notin active_col' => C24_SpanLog(a.ip, a.user, a.start_time, FALSE)
       /\ \A c \in C24_AllRows(contributors_col) :
              c \notin C24_AllRows(contributors_col')
                  => C24_SpanLog(c.main_ip, c.contributor, c.start_time, TRUE)]_vars
====
